---- MODULE Spec2Model ----
(***************************************************************************)
(* Model of PLCrashAsync.c: the async-safe byte primitives                 *)
(* (plcrash_async_strncmp, plcrash_async_memcpy), the write loop           *)
(* plcrash_async_writen and the buffered, limited file writer              *)
(* plcrash_async_file_{init,write,flush,close}.                            *)
(*                                                                         *)
(* Memory is a sequence of bytes (unsigned values 0..255); a pointer is a  *)
(* 1-based index into it.  The operating system is the environment: every  *)
(* write(2) issued by plcrash_async_writen is one step whose outcome (the  *)
(* number of bytes accepted, EINTR, another error, a zero return) is       *)
(* chosen nondeterministically, and so is the outcome of close(2).         *)
(***************************************************************************)
EXTENDS Integers, Sequences, FiniteSets, TLC

\* ------------------------------------------------------------------ bounds

\* sizeof(file->buffer): the capacity of the writer's buffer, scaled down.
BufferSize == 3

\* Longest data a single plcrash_async_file_write call is given.
MaxLen == 4

\* Largest output_limit given to plcrash_async_file_init (0 = no limit).
MaxLimit == 4

\* Number of bytes the descriptor takes before the device is full.
MaxDisk == 5

\* Longest string (terminator excluded) given to plcrash_async_strncmp,
\* and the largest n is one more.
MaxStr == 3

\* Size of the memory plcrash_async_memcpy works in.
MemSize == 4

\* Largest magnitude of the value given to plcrash_async_strerror: the
\* argument ranges over -MaxErr..MaxErr, most of it outside plcrash_error_t.
MaxErr == 60

\* Width of size_t in bits, scaled down: wide enough for no sum of the
\* lengths and limits above to wrap, small enough for data of every length
\* up to SIZE_MAX to be written.
SizeBits == 4

\* ------------------------------------------------------- program constants

SizeMod == 2 ^ SizeBits

\* Unsigned size_t arithmetic.
SizeAdd(a, b) == (a + b) % SizeMod

SizeSub(a, b) == (a - b + SizeMod) % SizeMod

\* errno values: EINTR, and any other value (0 included).
ErrnoValues == {"EINTR", "EOTHER"}

\* All sequences over S of length exactly n / at most n.
SeqsOfLen(S, n) == [1..n -> S]

SeqsUpTo(S, n) == UNION { SeqsOfLen(S, k) : k \in 0..n }

\* The data a write call is given.  The writer copies bytes and never looks
\* at them, so one data per length is enough, its i-th byte being i: the
\* bytes on the descriptor then tell which byte of which call each one is.
WriteData == { [i \in 1..n |-> i] : n \in 0..MaxLen }

\* Data of the lengths of WriteData and of the largest length a size_t can
\* hold, SIZE_MAX.
WideData ==
    { [i \in 1..n |-> i] : n \in (0..MaxLen) \cup {SizeMod - 1} }

\* What the uninitialised buffer holds: a byte no data holds.
Garbage == { [i \in 1..BufferSize |-> 0] }

VARIABLES
    file,       \* plcrash_async_file_t: fd, buflen, total_bytes, limit_bytes, buffer
    disk,       \* the bytes the OS has accepted on file.fd, in order
    fdOpen,     \* whether the descriptor is still open
    errno,      \* the thread's errno
    pc,         \* "idle", or the call site of the plcrash_async_writen in progress,
                \* or "close" when close(2) is about to be issued
    arg,        \* the data argument of the plcrash_async_file_write in progress
    wsrc,       \* what plcrash_async_writen's data points into: "buffer" or "data"
    p,          \* plcrash_async_writen: offset of p from data
    left,       \* plcrash_async_writen: left
    written,    \* plcrash_async_writen: written
    op,         \* the operation called last
    ret,        \* its return value (meaningful when pc = "idle" and op # "none")
    entry,      \* file and disk as they were when that operation was called
    call,       \* what happened during that call (history for the properties)
    accepted,   \* concatenation of the data of the write calls that returned true
    rejected,   \* whether some write call was refused by the output limit
    oserr,      \* whether some write(2) has failed for good (not an EINTR)
    wfail,      \* whether that happened inside a plcrash_async_file_write call
    cmp,        \* last call of plcrash_async_strncmp: arguments and result
    cpy,        \* last call of plcrash_async_memcpy: memory, arguments and result
    err         \* last call of plcrash_async_strerror: argument and result

vars == <<file, disk, fdOpen, errno, pc, arg, wsrc, p, left, written,
          op, ret, entry, call, accepted, rejected, oserr, wfail, cmp, cpy, err>>

writerVars == <<file, disk, fdOpen, errno, pc, arg, wsrc, p, left, written,
                op, ret, entry, call, accepted, rejected, oserr, wfail>>

\* ------------------------------------------------------------ error strings

\* The enumerators of plcrash_error_t, numbered in the order of their
\* declaration, which is the order of the case labels.
PLCRASH_ESUCCESS == 0
PLCRASH_EUNKNOWN == 1
PLCRASH_OUTPUT_ERR == 2
PLCRASH_ENOMEM == 3
PLCRASH_ENOTSUP == 4
PLCRASH_EINVAL == 5
PLCRASH_EINTERNAL == 6
PLCRASH_EACCESS == 7
PLCRASH_ENOTFOUND == 8

ErrorCodes ==
    {PLCRASH_ESUCCESS, PLCRASH_EUNKNOWN, PLCRASH_OUTPUT_ERR, PLCRASH_ENOMEM,
     PLCRASH_ENOTSUP, PLCRASH_EINVAL, PLCRASH_EINTERNAL, PLCRASH_EACCESS,
     PLCRASH_ENOTFOUND}

plcrash_async_strerror_SharedMessage(error) ==
    CASE error = PLCRASH_ESUCCESS -> "No error"
      [] error = PLCRASH_EUNKNOWN -> "Unknown error"
      [] error = PLCRASH_OUTPUT_ERR ->
             "Output file can not be opened (or written to)"
      [] error = PLCRASH_ENOMEM -> "No memory available"
      [] error = PLCRASH_ENOTSUP -> "Operation not supported"
      [] error = PLCRASH_EINVAL -> "Invalid argument"
      [] error = PLCRASH_EINTERNAL -> "Internal error"
      [] error = PLCRASH_EACCESS -> "Access denied"
      [] error = PLCRASH_ENOTFOUND -> "Access denied"
      [] OTHER -> "Unhandled error code"

\* plcrash_async_strerror(error): the switch over the enumerators, and the
\* return statement after it for every other value.
plcrash_async_strerror(error) ==
    CASE error = PLCRASH_ESUCCESS -> "No error"
      [] error = PLCRASH_EUNKNOWN -> "Unknown error"
      [] error = PLCRASH_OUTPUT_ERR ->
             "Output file can not be opened (or written to)"
      [] error = PLCRASH_ENOMEM -> "No memory available"
      [] error = PLCRASH_ENOTSUP -> "Operation not supported"
      [] error = PLCRASH_EINVAL -> "Invalid argument"
      [] error = PLCRASH_EINTERNAL -> "Internal error"
      [] error = PLCRASH_EACCESS -> "Access denied"
      [] error = PLCRASH_ENOTFOUND -> "Not found"
      [] OTHER -> "Unhandled error code"

\* ---------------------------------------------------------- byte primitives

\* The value of a byte read through a (signed) char pointer.
AsChar(b) == IF b >= 128 THEN b - 256 ELSE b

\* StrncmpTail with the two bytes read as (signed) chars.
StrncmpTail_Signed(s1, s2, i1, i2, n) ==
    IF n = 0 THEN 0 ELSE AsChar(s1[i1]) - AsChar(s2[i2 - 1])

\* The final return of plcrash_async_strncmp, reached when the loop is left
\* without meeting the terminator: s1 is at index i1, s2 has already been
\* advanced to index i2, n is what the loop left of the count.
StrncmpTail(s1, s2, i1, i2, n) ==
    IF n = 0 THEN 0 ELSE s1[i1] - s2[i2 - 1]

\* The while loop of plcrash_async_strncmp.  The condition reads *s1 and
\* *s2, advances s2 in every case, and, only when the two are equal, tests
\* n > 0 and decrements n (as a size_t: 0 becomes SizeMod - 1).
RECURSIVE StrncmpLoop(_, _, _, _, _)
StrncmpLoop(s1, s2, i1, i2, n) ==
    IF AsChar(s1[i1]) = AsChar(s2[i2])
    THEN IF n > 0
         THEN IF s1[i1] = 0
              THEN 0
              ELSE StrncmpLoop(s1, s2, i1 + 1, i2 + 1, SizeSub(n, 1))
         ELSE StrncmpTail(s1, s2, i1, i2 + 1, SizeSub(n, 1))
    ELSE StrncmpTail(s1, s2, i1, i2 + 1, n)

\* plcrash_async_strncmp(s1, s2, n): s1 and s2 are the bytes the two
\* pointers point to, the terminating 0 included.
plcrash_async_strncmp(s1, s2, n) == StrncmpLoop(s1, s2, 1, 1, n)

\* The for loop of plcrash_async_memcpy: *d++ = *s++ while count < n.
RECURSIVE MemcpyLoop(_, _, _, _, _)
MemcpyLoop(mem, d, s, count, n) ==
    IF count < n
    THEN MemcpyLoop([mem EXCEPT ![d] = mem[s]], d + 1, s + 1, count + 1, n)
    ELSE mem

\* plcrash_async_memcpy returning dest, as memcpy does.
plcrash_async_memcpy_ReturnsDest(mem, dest, source, n) ==
    [mem |-> MemcpyLoop(mem, dest, source, 0, n), ret |-> dest]

\* plcrash_async_memcpy(dest, source, n) in memory mem: the memory after the
\* call and the pointer returned.
plcrash_async_memcpy(mem, dest, source, n) ==
    [mem |-> MemcpyLoop(mem, dest, source, 0, n), ret |-> source]

\* ------------------------------------------------------------- the writer

\* plcrash_async_file_init(file, fd, output_limit).  The buffer is not
\* initialised: it holds whatever the memory held.
plcrash_async_file_init(fd, output_limit, garbage) ==
    [fd |-> fd, buflen |-> 0, total_bytes |-> 0, limit_bytes |-> output_limit,
     buffer |-> garbage]

\* Control state after a call has returned r, the writer being f.
Done(f, r) ==
    [file |-> f, pc |-> "idle", wsrc |-> "none", p |-> 0, left |-> 0,
     written |-> 0, ret |-> r]

\* Control state inside the loop of plcrash_async_writen(fd, data, len),
\* called at `site` with data pointing into `src`: p = data, left = len.
InWriten(f, site, src, len) ==
    [file |-> f, pc |-> site, wsrc |-> src, p |-> 0, left |-> len,
     written |-> 0, ret |-> FALSE]

\* WriteFits copying the data to the start of the buffer instead of after
\* the bytes it holds.
WriteFits_FromBufferStart(f, data) ==
    LET len == Len(data)
        mem == f.buffer \o data
        cp  == plcrash_async_memcpy(mem, 1, BufferSize + 1, len)
    IN  IF len + f.buflen <= BufferSize
        THEN Done([f EXCEPT !.buffer = SubSeq(cp.mem, 1, BufferSize),
                            !.buflen = f.buflen + len], TRUE)
        ELSE InWriten(f, "write_direct", "data", len)

\* WriteFits without the test of the space left: the data is always
\* copied to the buffer.
WriteFits_NoFitCheck(f, data) ==
    LET len == Len(data)
        mem == f.buffer \o data
        cp  == plcrash_async_memcpy(mem, f.buflen + 1, BufferSize + 1, len)
    IN  Done([f EXCEPT !.buffer = SubSeq(cp.mem, 1, BufferSize),
                       !.buflen = f.buflen + len], TRUE)

\* plcrash_async_file_write from "Check if the new data fits within the
\* buffer" on: buffer the data with plcrash_async_memcpy (the buffer and the
\* data laid out one after the other in memory), or start writing it to
\* the descriptor.  In the second case len > sizeof(buffer) - buflen >= 0,
\* so the loop of plcrash_async_writen is entered.
WriteFits(f, data) ==
    LET len == Len(data)
        mem == f.buffer \o data
        cp  == plcrash_async_memcpy(mem, f.buflen + 1, BufferSize + 1, len)
    IN  IF len + f.buflen <= BufferSize
        THEN Done([f EXCEPT !.buffer = SubSeq(cp.mem, 1, BufferSize),
                            !.buflen = f.buflen + len], TRUE)
        ELSE InWriten(f, "write_direct", "data", len)

\* FlushReturn with close going on to close(2) whatever the flush returned.
FlushReturn_ClosesAnyway(f, site, r) ==
    IF site = "close_flush"
    THEN [Done(f, FALSE) EXCEPT !.pc = "close"]
    ELSE Done(f, r)

\* plcrash_async_file_flush returns r to its caller: the user (site
\* "flush") or plcrash_async_file_close (site "close_flush"), which returns
\* false if the flush failed and goes on to close(2) otherwise.
FlushReturn(f, site, r) ==
    IF site = "close_flush" /\ r
    THEN [Done(f, FALSE) EXCEPT !.pc = "close"]
    ELSE Done(f, r)

\* AfterWriten with plcrash_async_file_write not resetting buflen after it
\* has flushed the buffer.
AfterWriten_KeepsBuflen(f, site, rv, data) ==
    CASE site = "write_flush" ->
            IF rv < 0 THEN Done(f, FALSE) ELSE WriteFits(f, data)
      [] site = "write_direct" ->
            IF rv < 0 THEN Done(f, FALSE) ELSE Done(f, TRUE)
      [] site \in {"flush", "close_flush"} ->
            IF rv < 0 THEN FlushReturn(f, site, FALSE)
            ELSE FlushReturn([f EXCEPT !.buflen = 0], site, TRUE)

\* AfterWriten with plcrash_async_file_flush resetting buflen whether or
\* not the bytes were written.
AfterWriten_DrainsOnFailure(f, site, rv, data) ==
    CASE site = "write_flush" ->
            IF rv < 0 THEN Done(f, FALSE)
            ELSE WriteFits([f EXCEPT !.buflen = 0], data)
      [] site = "write_direct" ->
            IF rv < 0 THEN Done(f, FALSE) ELSE Done(f, TRUE)
      [] site \in {"flush", "close_flush"} ->
            FlushReturn([f EXCEPT !.buflen = 0], site, rv >= 0)

\* AfterWriten with plcrash_async_file_write emptying the buffer when the
\* flush of the buffer has failed.
AfterWriten_WriteDrainsOnFailure(f, site, rv, data) ==
    CASE site = "write_flush" ->
            IF rv < 0 THEN Done([f EXCEPT !.buflen = 0], FALSE)
            ELSE WriteFits([f EXCEPT !.buflen = 0], data)
      [] site = "write_direct" ->
            IF rv < 0 THEN Done(f, FALSE) ELSE Done(f, TRUE)
      [] site \in {"flush", "close_flush"} ->
            IF rv < 0 THEN FlushReturn(f, site, FALSE)
            ELSE FlushReturn([f EXCEPT !.buflen = 0], site, TRUE)

\* AfterWriten with plcrash_async_file_write taking len off total_bytes
\* again when one of its plcrash_async_writen calls has failed.
AfterWriten_RollsBack(f, site, rv, data) ==
    LET g == IF f.limit_bytes # 0
             THEN [f EXCEPT !.total_bytes = SizeSub(@, Len(data))]
             ELSE f
    IN  CASE site = "write_flush" ->
                IF rv < 0 THEN Done(g, FALSE)
                ELSE WriteFits([f EXCEPT !.buflen = 0], data)
          [] site = "write_direct" ->
                IF rv < 0 THEN Done(g, FALSE) ELSE Done(f, TRUE)
          [] site \in {"flush", "close_flush"} ->
                IF rv < 0 THEN FlushReturn(f, site, FALSE)
                ELSE FlushReturn([f EXCEPT !.buflen = 0], site, TRUE)

\* What the caller does with the value rv that plcrash_async_writen
\* returned at `site`; data is the argument of the write call in progress.
AfterWriten(f, site, rv, data) ==
    CASE site = "write_flush" ->
            IF rv < 0 THEN Done(f, FALSE)
            ELSE WriteFits([f EXCEPT !.buflen = 0], data)
      [] site = "write_direct" ->
            IF rv < 0 THEN Done(f, FALSE) ELSE Done(f, TRUE)
      [] site \in {"flush", "close_flush"} ->
            IF rv < 0 THEN FlushReturn(f, site, FALSE)
            ELSE FlushReturn([f EXCEPT !.buflen = 0], site, TRUE)

\* Entry of plcrash_async_writen(fd, data, len): with len = 0 the loop is
\* not entered and written (0) is returned at once.
Writen(f, site, src, len, data) ==
    IF len > 0 THEN InWriten(f, site, src, len)
    ELSE AfterWriten(f, site, 0, data)

\* LimitExceeded comparing the length of this write alone with the limit.
LimitExceeded_IgnoresTotal(f, len) ==
    f.limit_bytes # 0 /\ len > f.limit_bytes

\* LimitExceeded without the test that a limit is set.
LimitExceeded_NoZeroTest(f, len) ==
    SizeAdd(len, f.total_bytes) > f.limit_bytes

\* The output-limit test of plcrash_async_file_write.
LimitExceeded(f, len) ==
    f.limit_bytes # 0 /\ SizeAdd(len, f.total_bytes) > f.limit_bytes

\* plcrash_async_file_write without the flush of a buffer that would fill.
plcrash_async_file_write_NoFlush(f, data) ==
    LET len == Len(data)
        f1  == IF f.limit_bytes # 0
               THEN [f EXCEPT !.total_bytes = SizeAdd(f.total_bytes, len)]
               ELSE f
    IN  IF LimitExceeded(f, len) THEN Done(f, FALSE)
        ELSE WriteFits(f1, data)

\* plcrash_async_file_write(file, data, len) up to its first system call.
plcrash_async_file_write(f, data) ==
    LET len == Len(data)
        f1  == IF f.limit_bytes # 0
               THEN [f EXCEPT !.total_bytes = SizeAdd(f.total_bytes, len)]
               ELSE f
    IN  IF LimitExceeded(f, len) THEN Done(f, FALSE)
        ELSE IF f1.buflen + len > BufferSize
             THEN Writen(f1, "write_flush", "buffer", f1.buflen, data)
             ELSE WriteFits(f1, data)

\* plcrash_async_file_flush(file) up to its system call; site tells whether
\* it was called by the user or by plcrash_async_file_close.
plcrash_async_file_flush(f, site) ==
    IF f.buflen = 0 THEN FlushReturn(f, site, TRUE)
    ELSE Writen(f, site, "buffer", f.buflen, <<>>)

\* plcrash_async_file_close(file) up to its first system call.
plcrash_async_file_close(f) == plcrash_async_file_flush(f, "close_flush")

\* plcrash_async_file_close after close(2) returned rc.
AfterClose(f, rc) == Done(f, rc = 0)

\* WritenIter with every result <= 0 of write(2) taken as an error, EINTR
\* included.
WritenIter_NoEintrRetry(f, site, src, ptr, lft, rv, e, data) ==
    IF rv <= 0 THEN AfterWriten(f, site, -1, data)
    ELSE LET l == SizeSub(lft, rv)
         IN  IF l > 0
             THEN [InWriten(f, site, src, l) EXCEPT !.p = ptr + rv, !.written = rv]
             ELSE AfterWriten(f, site, rv, data)

\* WritenIter without `p += written`: every write(2) is given the start of
\* the data.
WritenIter_NoAdvance(f, site, src, ptr, lft, rv, e, data) ==
    IF rv <= 0 /\ e # "EINTR" THEN AfterWriten(f, site, -1, data)
    ELSE LET w == IF rv <= 0 THEN 0 ELSE rv
             l == SizeSub(lft, w)
         IN  IF l > 0
             THEN [InWriten(f, site, src, l) EXCEPT !.p = ptr, !.written = w]
             ELSE AfterWriten(f, site, w, data)

\* WritenIter with every result <= 0 of write(2) retried, whatever errno is.
WritenIter_RetriesAll(f, site, src, ptr, lft, rv, e, data) ==
    LET w == IF rv <= 0 THEN 0 ELSE rv
        l == SizeSub(lft, w)
    IN  IF l > 0
        THEN [InWriten(f, site, src, l) EXCEPT !.p = ptr + w, !.written = w]
        ELSE AfterWriten(f, site, w, data)

\* One iteration of the loop of plcrash_async_writen, write(2) having
\* returned rv with errno e: a result <= 0 is retried when errno is EINTR
\* and makes the function return -1 otherwise; then left and p move by
\* written, and the function returns written once left is 0.
WritenIter(f, site, src, ptr, lft, rv, e, data) ==
    IF rv <= 0 /\ e # "EINTR" THEN AfterWriten(f, site, -1, data)
    ELSE LET w == IF rv <= 0 THEN 0 ELSE rv
             l == SizeSub(lft, w)
         IN  IF l > 0
             THEN [InWriten(f, site, src, l) EXCEPT !.p = ptr + w, !.written = w]
             ELSE AfterWriten(f, site, w, data)

\* ----------------------------------------------------------------- actions

WritenSites == {"write_flush", "write_direct", "flush", "close_flush"}

\* The bytes plcrash_async_writen's data points to.
WritenBytes == IF wsrc = "buffer" THEN file.buffer ELSE arg

\* History of a call that has just started.
NewCall ==
    [eintr |-> FALSE, lastOs |-> "none", failed |-> FALSE, oscloses |-> 0,
     closefail |-> FALSE, failedAt |-> "none", short |-> FALSE]

\* The control state c becomes the next state.
Ctl(c) ==
    /\ file' = c.file
    /\ pc' = c.pc
    /\ wsrc' = c.wsrc
    /\ p' = c.p
    /\ left' = c.left
    /\ written' = c.written
    /\ ret' = c.ret

\* The write call in progress returns: its data counts as accepted when it
\* returns true.
Accept(c, o, data) ==
    accepted' = IF o = "write" /\ c.pc = "idle" /\ c.ret
                THEN accepted \o data ELSE accepted

\* The mathematical condition of the output limit: the bytes taken so far
\* plus len exceed a nonzero limit.
OverLimit(f, len) == f.limit_bytes # 0 /\ f.total_bytes + len > f.limit_bytes

\* The caller calls plcrash_async_file_write(file, data, Len(data)).
Write(data) ==
    /\ pc = "idle" /\ fdOpen
    /\ LET c == plcrash_async_file_write(file, data)
       IN  /\ Ctl(c)
           /\ arg' = IF c.pc = "idle" THEN <<>> ELSE data
           /\ op' = "write"
           /\ entry' = [file |-> file, disk |-> disk, data |-> data]
           /\ call' = NewCall
           /\ Accept(c, "write", data)
    /\ rejected' = (rejected \/ OverLimit(file, Len(data)))
    /\ UNCHANGED <<disk, fdOpen, errno, oserr, wfail, cmp, cpy, err>>

\* The caller calls plcrash_async_file_flush(file).
Flush ==
    /\ pc = "idle" /\ fdOpen
    /\ Ctl(plcrash_async_file_flush(file, "flush"))
    /\ op' = "flush"
    /\ entry' = [file |-> file, disk |-> disk, data |-> <<>>]
    /\ call' = NewCall
    /\ UNCHANGED <<disk, fdOpen, errno, arg, accepted, rejected, oserr, wfail,
                   cmp, cpy, err>>

\* The caller calls plcrash_async_file_close(file).
Close ==
    /\ pc = "idle" /\ fdOpen
    /\ Ctl(plcrash_async_file_close(file))
    /\ op' = "close"
    /\ entry' = [file |-> file, disk |-> disk, data |-> <<>>]
    /\ call' = NewCall
    /\ UNCHANGED <<disk, fdOpen, errno, arg, accepted, rejected, oserr, wfail,
                   cmp, cpy, err>>

\* write(fd, p, left) returns rv and leaves errno e; kind names the outcome.
OsWrite(rv, e, kind) ==
    /\ pc \in WritenSites
    /\ LET c == WritenIter(file, pc, wsrc, p, left, rv, e, arg)
       IN  /\ Ctl(c)
           /\ arg' = IF c.pc = "idle" THEN <<>> ELSE arg
           /\ Accept(c, op, arg)
    /\ disk' = IF rv > 0 THEN disk \o SubSeq(WritenBytes, p + 1, p + rv) ELSE disk
    /\ errno' = e
    /\ call' = [call EXCEPT !.lastOs = kind, !.eintr = (@ \/ kind = "eintr"),
                            !.failed = (rv <= 0 /\ e # "EINTR"),
                            !.failedAt = IF rv <= 0 /\ e # "EINTR" THEN pc ELSE @,
                            !.short = (@ \/ (0 < rv /\ rv < left))]
    /\ oserr' = (oserr \/ (rv <= 0 /\ e # "EINTR"))
    /\ wfail' = (wfail \/ (op = "write" /\ rv <= 0 /\ e # "EINTR"))
    /\ UNCHANGED <<fdOpen, op, entry, rejected, cmp, cpy, err>>

\* The OS accepts the first k of the left bytes (a short write when k < left).
OsWriteAccept(k) ==
    /\ k \in 1..left
    /\ Len(disk) + k <= MaxDisk
    /\ OsWrite(k, errno, "ok")

\* write(2) is interrupted by a signal: -1 with errno EINTR, nothing written.
OsWriteEintr == OsWrite(-1, "EINTR", "eintr")

\* write(2) fails with another error: -1, nothing written.
OsWriteError == OsWrite(-1, "EOTHER", "error")

\* write(2) returns 0: nothing written and errno left as it was.
OsWriteZero == OsWrite(0, errno, "zero")

\* close(fd) returns rc; on failure errno is set and the descriptor may or
\* may not have been released.
OsClose(rc, e, open) ==
    /\ pc = "close"
    /\ Ctl(AfterClose(file, rc))
    /\ fdOpen' = open
    /\ errno' = e
    /\ call' = [call EXCEPT !.oscloses = @ + 1, !.closefail = (rc # 0)]
    /\ UNCHANGED <<disk, arg, op, entry, accepted, rejected, oserr, wfail,
                   cmp, cpy, err>>

OsCloseOk == OsClose(0, errno, FALSE)

OsCloseFail == \E e \in {"EINTR", "EOTHER"}, open \in BOOLEAN : OsClose(-1, e, open)

\* The descriptors a writer is initialised with.
Fds == {3}

NoCmp == [s1 |-> <<0>>, s2 |-> <<0>>, n |-> 0, ret |-> 0, called |-> FALSE]

NoCpy == [before |-> <<>>, after |-> <<>>, dest |-> 1, source |-> 1, n |-> 0,
          ret |-> 0, called |-> FALSE]

NoErr == [code |-> 0, msg |-> "", called |-> FALSE]

\* The state after plcrash_async_file_init(file, fd, output_limit), the
\* buffer holding garbage and errno whatever the program left in it.
InitWriter(fds, limits, garbages, errnos) ==
    /\ \E fd \in fds, lim \in limits, g \in garbages :
           /\ file = plcrash_async_file_init(fd, lim, g)
           /\ entry = [file |-> file, disk |-> <<>>, data |-> <<>>]
    /\ disk = <<>>
    /\ fdOpen = TRUE
    /\ errno \in errnos
    /\ pc = "idle" /\ arg = <<>> /\ wsrc = "none"
    /\ p = 0 /\ left = 0 /\ written = 0
    /\ op = "none" /\ ret = TRUE
    /\ call = NewCall
    /\ accepted = <<>>
    /\ rejected = FALSE
    /\ oserr = FALSE
    /\ wfail = FALSE

Init ==
    /\ InitWriter(Fds, 0..MaxLimit, Garbage, ErrnoValues)
    /\ cmp = NoCmp
    /\ cpy = NoCpy
    /\ err = NoErr

Next ==
    \/ \E data \in WriteData : Write(data)
    \/ Flush
    \/ Close
    \/ \E k \in 1..MaxLen : OsWriteAccept(k)
    \/ OsWriteEintr
    \/ OsWriteError
    \/ OsWriteZero
    \/ OsCloseOk
    \/ OsCloseFail

Spec == Init /\ [][Next]_vars

\* A write(2) that takes at least one byte or fails with an error other
\* than EINTR (the device is full in the end, and then it fails).
OsWriteProgress ==
    \/ \E k \in 1..MaxLen : OsWriteAccept(k)
    \/ OsWriteError

\* close(2) returns.
OsCloseReturns == OsCloseOk \/ OsCloseFail

\* The writer with an operating system whose system calls return and whose
\* write(2) is not interrupted (or returns 0) for ever: while
\* plcrash_async_writen loops, a write(2) that makes progress comes in the
\* end.  The writer has a limit, which bounds the calls of a run.
InitLive ==
    /\ InitWriter(Fds, 1..MaxLimit, Garbage, ErrnoValues)
    /\ cmp = NoCmp
    /\ cpy = NoCpy
    /\ err = NoErr

SpecLive ==
    /\ InitLive /\ [][Next]_vars
    /\ WF_vars(OsWriteProgress)
    /\ WF_vars(OsCloseReturns)

\* A writer with an output limit, called with data of any length up to
\* SIZE_MAX.
InitWide ==
    /\ InitWriter(Fds, 1..MaxLimit, Garbage, ErrnoValues)
    /\ cmp = NoCmp
    /\ cpy = NoCpy
    /\ err = NoErr

NextWide ==
    \/ \E data \in WideData : Write(data)
    \/ Flush
    \/ Close
    \/ \E k \in 1..MaxLen : OsWriteAccept(k)
    \/ OsWriteEintr
    \/ OsWriteError
    \/ OsWriteZero
    \/ OsCloseOk
    \/ OsCloseFail

SpecWide == InitWide /\ [][NextWide]_vars

\* ------------------------------------------- the byte primitives, called

\* The characters of the strings compared: 'a', 'b', 'c', 'd' and a byte
\* above 127.
StrChars == {97, 98, 99, 100, 200}

\* The null-terminated strings of at most MaxStr characters, as the bytes
\* in memory.
Strings == { s \o <<0>> : s \in SeqsUpTo(StrChars, MaxStr) }

\* The bytes plcrash_async_memcpy is given to copy.
MemBytes == {0, 1, 2}

\* The caller calls plcrash_async_strncmp(s1, s2, n), once in a run.
StrncmpCall(s1, s2, n) ==
    /\ ~cmp.called
    /\ cmp' = [s1 |-> s1, s2 |-> s2, n |-> n,
               ret |-> plcrash_async_strncmp(s1, s2, n), called |-> TRUE]
    /\ UNCHANGED <<writerVars, cpy, err>>

\* The caller calls plcrash_async_memcpy(dest, source, n) in memory mem,
\* both ranges lying within the memory (they may overlap), once in a run.
MemcpyCall(mem, dest, source, n) ==
    /\ ~cpy.called
    /\ dest + n - 1 <= Len(mem)
    /\ source + n - 1 <= Len(mem)
    /\ LET r == plcrash_async_memcpy(mem, dest, source, n)
       IN  cpy' = [before |-> mem, after |-> r.mem, dest |-> dest,
                   source |-> source, n |-> n, ret |-> r.ret, called |-> TRUE]
    /\ UNCHANGED <<writerVars, cmp, err>>

InitPure ==
    /\ InitWriter(Fds, {0}, Garbage, {"EOTHER"})
    /\ cmp = NoCmp
    /\ cpy = NoCpy
    /\ err = NoErr

NextCmp ==
    /\ ~cmp.called
    /\ \E s1 \in Strings, s2 \in Strings, n \in 0..(MaxStr + 1) :
           StrncmpCall(s1, s2, n)

SpecCmp == InitPure /\ [][NextCmp]_vars

NextCpy ==
    /\ ~cpy.called
    /\ \E mem \in SeqsOfLen(MemBytes, MemSize), dest \in 1..MemSize,
           source \in 1..MemSize, n \in 0..MemSize :
           MemcpyCall(mem, dest, source, n)

SpecCpy == InitPure /\ [][NextCpy]_vars

\* One call of plcrash_async_strerror(error); the argument is any value of
\* the integer type underlying plcrash_error_t.
StrerrorCall(error) ==
    /\ err' = [code |-> error, msg |-> plcrash_async_strerror(error),
               called |-> TRUE]
    /\ UNCHANGED <<writerVars, cmp, cpy>>

NextErr ==
    /\ ~err.called
    /\ \E error \in (0 - MaxErr)..MaxErr : StrerrorCall(error)

SpecErr == InitPure /\ [][NextErr]_vars

\* ------------------------------------------------------------ properties

\* The bytes the buffer held when the last operation was called.
EntryBuffered == SubSeq(entry.file.buffer, 1, entry.file.buflen)

\* The last operation called was o and it has returned.
Returned(o) == pc = "idle" /\ op = o

\* C1: a write call made when limit != 0 and total_bytes + len > limit
\* returns false at once, issues no write(2), and leaves the writer
\* (buflen, total_bytes, buffer, limit, fd) and the bytes on the
\* descriptor as they were.
C1_OverLimitRejected ==
    (op = "write" /\ OverLimit(entry.file, Len(entry.data)))
        => /\ pc = "idle"
           /\ ~ret
           /\ call.lastOs = "none"
           /\ file = entry.file
           /\ disk = entry.disk

\* C1 witness: a write of data that does not fit under the limit has been
\* refused after earlier data was taken, some of it still in the buffer.
C1_Witness ==
    /\ Returned("write") /\ ~ret
    /\ OverLimit(entry.file, Len(entry.data))
    /\ Len(entry.data) <= file.limit_bytes
    /\ file.total_bytes > 0 /\ file.buflen > 0

\* C2: with a nonzero limit, the bytes the OS has accepted on the
\* descriptor never exceed the limit.
C2_DiskWithinLimit ==
    file.limit_bytes # 0 => Len(disk) <= file.limit_bytes

\* C3: once a write call has been refused by the limit, every later write
\* call returns false, whatever its length (stated for the calls that bring
\* data, one byte or more).
C3_RejectionSticks ==
    (rejected /\ Returned("write") /\ Len(entry.data) > 0) => ~ret

\* C4: when close returns true and no write(2) has failed for good, the
\* bytes on the descriptor are the data of the write calls that returned
\* true, concatenated in call order.
C4_CloseDeliversAccepted ==
    (Returned("close") /\ ret /\ ~oserr) => disk = accepted

\* C4 witness: a successful close, with an interrupted write(2), of a
\* writer that took more bytes than the buffer holds and refused a write.
C4_Witness ==
    /\ Returned("close") /\ ret /\ ~oserr
    /\ Len(accepted) > BufferSize
    /\ entry.file.buflen > 0
    /\ call.eintr
    /\ rejected

\* C5: with limit = 0, a write of more bytes than the buffer holds, no
\* write(2) failing, returns true, puts the bytes that were buffered and
\* then the new bytes on the descriptor, and leaves buflen = 0 and the
\* buffer's bytes as they were.
C5_LargeWriteBypasses ==
    (Returned("write") /\ entry.file.limit_bytes = 0
        /\ Len(entry.data) > BufferSize /\ ~call.failed)
        => /\ ret
           /\ disk = entry.disk \o EntryBuffered \o entry.data
           /\ file.buflen = 0
           /\ file.buffer = entry.file.buffer

\* C5 witness: such a write has returned, the buffer having held bytes.
C5_Witness ==
    /\ Returned("write") /\ entry.file.limit_bytes = 0
    /\ Len(entry.data) > BufferSize /\ ~call.failed
    /\ entry.file.buflen > 0
    /\ ret

\* C6: flush with an empty buffer returns true and issues no write(2);
\* flush whose writing succeeds returns true with buflen = 0, the buffered
\* bytes put on the descriptor; flush whose writing fails returns false and
\* leaves buflen, buffer, total_bytes, limit and fd as they were.
C6_Flush ==
    /\ (op = "flush" /\ entry.file.buflen = 0)
           => (pc = "idle" /\ ret /\ call.lastOs = "none"
               /\ file = entry.file /\ disk = entry.disk)
    /\ (Returned("flush") /\ entry.file.buflen > 0 /\ ~call.failed)
           => (ret /\ file = [entry.file EXCEPT !.buflen = 0]
               /\ disk = entry.disk \o EntryBuffered)
    /\ (Returned("flush") /\ call.failed)
           => (~ret /\ file = entry.file)

\* C6 witness: a flush has failed after the OS had taken some of the
\* buffered bytes.
C6_Witness ==
    /\ Returned("flush") /\ call.failed /\ ~ret
    /\ Len(disk) > Len(entry.disk)
    /\ file.buflen > 1

\* C7: close flushes the buffered bytes once and only then closes the
\* descriptor: when the flush fails close returns false, close(2) is not
\* issued and the descriptor stays open; when it succeeds close(2) is issued
\* exactly once and close returns false exactly when close(2) fails.
C7_Close ==
    op = "close" =>
        /\ pc = "close"
               => (~call.failed /\ call.oscloses = 0 /\ fdOpen
                   /\ file.buflen = 0 /\ disk = entry.disk \o EntryBuffered)
        /\ (pc = "idle" /\ call.failed)
               => (~ret /\ call.oscloses = 0 /\ fdOpen)
        /\ (pc = "idle" /\ ~call.failed)
               => (call.oscloses = 1 /\ (ret <=> ~call.closefail)
                   /\ file.buflen = 0 /\ disk = entry.disk \o EntryBuffered)
        /\ pc \in {"close_flush", "close", "idle"}

\* C7 witness: a close with bytes in the buffer has flushed them and
\* closed the descriptor.
C7_Witness ==
    /\ Returned("close") /\ ret /\ ~fdOpen
    /\ entry.file.buflen > 0
    /\ call.oscloses = 1

\* C8: a call returns false only when a write(2) failed with something
\* other than EINTR, when close(2) failed or when the limit refused the
\* write, so interrupted write(2)s alone never make it fail; and a write(2)
\* failing with another error ends the call at once, with false.
C8_OnlyEintrRetried ==
    /\ (pc = "idle" /\ op # "none" /\ ~ret)
           => \/ call.failed
              \/ call.closefail
              \/ (op = "write" /\ OverLimit(entry.file, Len(entry.data)))
    /\ call.lastOs = "error" => (pc = "idle" /\ ~ret)

\* C8 witness: a write that had to flush the buffer and write its data to
\* the descriptor returned true although a write(2) was interrupted.
C8_Witness ==
    /\ Returned("write") /\ ret
    /\ call.eintr
    /\ Len(disk) > Len(entry.disk) + BufferSize

\* ------------------------------------------------- the byte primitives

Min(a, b) == IF a <= b THEN a ELSE b

\* The positions, among the first n and up to the first terminator, where
\* s1 and s2 differ.
Differences(s1, s2, n) ==
    { i \in 1..Min(n, Min(Len(s1), Len(s2))) : s1[i] # s2[i] }

\* What strncmp is to return: 0 when there is no such position, else the
\* difference of the bytes at the first one.
Expected(s1, s2, n) ==
    LET D == Differences(s1, s2, n)
    IN  IF D = {} THEN 0
        ELSE LET i == CHOOSE k \in D : \A j \in D : k <= j
             IN  s1[i] - s2[i]

\* C9: plcrash_async_strncmp(s1, s2, n) returns 0 exactly when the first n
\* characters of s1 and s2, up to a common terminator, are equal, and
\* otherwise the difference of the first differing bytes as unsigned
\* values; it returns 0 for s1 = s2 and a negative value for
\* ("abc", "abd", 3).
C9_Strncmp ==
    cmp.called =>
        /\ cmp.ret = Expected(cmp.s1, cmp.s2, cmp.n)
        /\ (cmp.ret = 0 <=> Differences(cmp.s1, cmp.s2, cmp.n) = {})
        /\ cmp.s1 = cmp.s2 => cmp.ret = 0
        /\ (cmp.s1 = <<97, 98, 99, 0>> /\ cmp.s2 = <<97, 98, 100, 0>> /\ cmp.n = 3)
               => cmp.ret < 0

\* C9 witness: "abc" has been compared with "abd" over 3 characters.
C9_Witness ==
    /\ cmp.called
    /\ cmp.s1 = <<97, 98, 99, 0>> /\ cmp.s2 = <<97, 98, 100, 0>> /\ cmp.n = 3
    /\ cmp.ret = -1

\* The ranges dest[0..n) and source[0..n) of the last memcpy do not overlap.
NonOverlapping ==
    cpy.dest + cpy.n <= cpy.source \/ cpy.source + cpy.n <= cpy.dest

\* C10: after plcrash_async_memcpy(dest, source, n) on ranges that do not
\* overlap, dest[0..n) holds what source[0..n) held, every byte outside
\* dest[0..n) (the source and the rest of dest) is as it was, and the value
\* returned is source, not dest.
C10_Memcpy ==
    (cpy.called /\ NonOverlapping) =>
        /\ \A i \in 0..(cpy.n - 1) :
               cpy.after[cpy.dest + i] = cpy.before[cpy.source + i]
        /\ \A j \in 1..Len(cpy.before) :
               (j < cpy.dest \/ j >= cpy.dest + cpy.n) => cpy.after[j] = cpy.before[j]
        /\ Len(cpy.after) = Len(cpy.before)
        /\ cpy.ret = cpy.source
        /\ cpy.n > 0 => cpy.ret # cpy.dest

\* C10 witness: a copy of two bytes or more between ranges that do not
\* overlap has changed the destination.
C10_Witness ==
    /\ cpy.called /\ NonOverlapping
    /\ cpy.n >= 2
    /\ cpy.after # cpy.before

\* ------------------------------------------- the writer, further properties

\* total_bytes after a write call that passed the output-limit test, given
\* the writer at the call and the length written.
Counted(f, len) ==
    IF f.limit_bytes # 0 THEN f.total_bytes + len ELSE f.total_bytes

\* C12 as stated: a write call that has to flush the buffer first
\* (buflen + len > sizeof(buffer)) and whose flush fails returns false and
\* leaves buflen = 0.
C12_DrainedOnFailedFlush ==
    (Returned("write") /\ call.failedAt = "write_flush")
        => (~ret /\ file.buflen = 0)

\* C12, amended: a write call that has to flush the buffer first and whose
\* flush fails returns false with buflen and the buffer as they were at the
\* call (the bytes stay buffered, whatever part of them the descriptor has
\* taken) and, with a nonzero limit, total_bytes already increased by len.
C12_FailedFlushKeepsBuffer ==
    (Returned("write") /\ call.failedAt = "write_flush")
        => /\ ~ret
           /\ entry.file.buflen + Len(entry.data) > BufferSize
           /\ file = [entry.file EXCEPT
                         !.total_bytes = Counted(entry.file, Len(entry.data))]
           /\ file.buflen > 0
           /\ Len(disk) - Len(entry.disk) < file.buflen
           /\ disk = entry.disk
                       \o SubSeq(EntryBuffered, 1, Len(disk) - Len(entry.disk))

\* C12 witness: the flush inside a write call has failed after the
\* descriptor had taken part of the buffered bytes.
C12_Witness ==
    /\ Returned("write") /\ call.failedAt = "write_flush" /\ ~ret
    /\ Len(disk) > Len(entry.disk)
    /\ file.buflen > 1

\* C13: a write call that passes the output-limit test with
\* buflen + len <= sizeof(buffer) returns true without any write(2): the
\* descriptor gets nothing, the data is copied into the buffer after the
\* bytes already there, which stay, and buflen grows by len.
C13_BufferedWrite ==
    (op = "write" /\ ~OverLimit(entry.file, Len(entry.data))
        /\ entry.file.buflen + Len(entry.data) <= BufferSize)
        => /\ pc = "idle" /\ ret
           /\ call.lastOs = "none"
           /\ disk = entry.disk
           /\ file.buflen = entry.file.buflen + Len(entry.data)
           /\ SubSeq(file.buffer, 1, file.buflen) = EntryBuffered \o entry.data
           /\ \A i \in (file.buflen + 1)..BufferSize :
                  file.buffer[i] = entry.file.buffer[i]
           /\ file.total_bytes = Counted(entry.file, Len(entry.data))
           /\ file.fd = entry.file.fd
           /\ file.limit_bytes = entry.file.limit_bytes

\* C13 witness: data has been buffered after bytes that an earlier write
\* had left in the buffer, and the descriptor has had nothing yet.
C13_Witness ==
    /\ Returned("write") /\ ret
    /\ entry.file.buflen > 0 /\ Len(entry.data) > 0
    /\ file.buflen = entry.file.buflen + Len(entry.data)
    /\ disk = <<>>

\* The data and the length given to the plcrash_async_writen call in
\* progress, and the bytes on the descriptor when it was called: the
\* buffered bytes, or the data of the write call once the flush of the
\* buffer is through.
WritenData == IF pc = "write_direct" THEN entry.data ELSE EntryBuffered

WritenLen == Len(WritenData)

WritenStart ==
    IF pc = "write_direct" THEN entry.disk \o EntryBuffered ELSE entry.disk

\* The last write call had to flush the buffer, and to write its data
\* straight to the descriptor.
EntryFlushes == entry.file.buflen + Len(entry.data) > BufferSize

EntryDirect == Len(entry.data) > BufferSize

\* C14: while plcrash_async_writen(fd, data, len) loops, left stays in
\* 1..len, p + left = len, and the descriptor has taken exactly data[0..p)
\* since the call, in order and once each, whatever short writes and EINTRs
\* there were: every write(2), a retry after EINTR included, is given the
\* tail data[p..len).  So when the function succeeds the descriptor has
\* taken exactly data[0..len).
C14_WritenInOrder ==
    /\ pc \in WritenSites
           => /\ left >= 1 /\ p >= 0
              /\ p + left = WritenLen
              /\ SubSeq(WritenBytes, 1, WritenLen) = WritenData
              /\ disk = WritenStart \o SubSeq(WritenData, 1, p)
    /\ ((Returned("flush") \/ op = "close") /\ pc \in {"idle", "close"}
           /\ ~call.failed)
           => disk = entry.disk \o EntryBuffered
    /\ (Returned("write") /\ ret)
           => disk = entry.disk
                       \o (IF EntryFlushes THEN EntryBuffered ELSE <<>>)
                       \o (IF EntryDirect THEN entry.data ELSE <<>>)

\* C14 witness: a flush of two bytes or more has succeeded after a short
\* write and an EINTR.
C14_Witness ==
    /\ Returned("flush") /\ ret
    /\ call.short /\ call.eintr
    /\ entry.file.buflen >= 2
    /\ disk = entry.disk \o EntryBuffered

\* C15: 0 <= buflen <= sizeof(buffer) in every state, between calls and
\* inside them, whatever calls have failed.
C15_BuflenInRange ==
    /\ file.buflen \in 0..BufferSize
    /\ Len(file.buffer) = BufferSize

\* C15 witness: the buffer is full after a call has failed.
C15_Witness ==
    /\ pc = "idle" /\ oserr
    /\ file.buflen = BufferSize

\* C16 as stated: with a nonzero limit total_bytes is, between calls, the
\* sum of the lengths of the write calls that returned true, and a write
\* call that returns false leaves total_bytes as it was.
C16_TotalIsAccepted ==
    file.limit_bytes # 0 =>
        /\ pc = "idle" => file.total_bytes = Len(accepted)
        /\ (Returned("write") /\ ~ret)
               => file.total_bytes = entry.file.total_bytes

\* C16, amended: with a nonzero limit total_bytes is the sum of the lengths
\* of the write calls that passed the output-limit test, whether they then
\* returned true or failed in write(2): a write call refused by the limit,
\* a flush and a close leave it as it was, every other write call adds len
\* before any write(2).  So total_bytes >= the sum of the lengths of the
\* write calls that returned true, with equality as long as no write(2)
\* has failed inside a write call.
C16_TotalCountsAdmitted ==
    file.limit_bytes # 0 =>
        /\ op = "none" => file.total_bytes = 0
        /\ op = "write" =>
               file.total_bytes =
                   IF OverLimit(entry.file, Len(entry.data))
                   THEN entry.file.total_bytes
                   ELSE entry.file.total_bytes + Len(entry.data)
        /\ op \in {"flush", "close"} =>
               file.total_bytes = entry.file.total_bytes
        /\ pc = "idle" =>
               /\ file.total_bytes >= Len(accepted)
               /\ ~wfail => file.total_bytes = Len(accepted)

\* C16 witness: a write call that passed the output-limit test has failed
\* in write(2) and total_bytes counts its bytes all the same.
C16_Witness ==
    /\ Returned("write") /\ ~ret /\ call.failed
    /\ file.limit_bytes # 0
    /\ Len(entry.data) > 0
    /\ file.total_bytes = entry.file.total_bytes + Len(entry.data)
    /\ file.total_bytes > Len(accepted)

\* C19: no operation changes limit_bytes or fd; with limit_bytes = 0
\* total_bytes stays 0 and a write call returns false only when a write(2)
\* has failed, never for the output limit, however many bytes were
\* written.
C19_NoLimit ==
    /\ file.limit_bytes = entry.file.limit_bytes
    /\ file.fd = entry.file.fd
    /\ file.limit_bytes = 0 =>
           /\ file.total_bytes = 0
           /\ (Returned("write") /\ ~ret)
                  => (call.failed /\ call.lastOs # "none")

\* C19 witness: without a limit, more bytes than the largest limit have
\* been accepted and a further write has returned true.
C19_Witness ==
    /\ file.limit_bytes = 0 /\ file.total_bytes = 0
    /\ Returned("write") /\ ret
    /\ Len(entry.data) > 0
    /\ Len(accepted) > MaxLimit

\* C17: every write, flush and close call returns: the loop of
\* plcrash_async_writen ends, with all bytes taken or with a failure, once
\* write(2) stops being interrupted; and plcrash_async_writen given len = 0
\* (the flush of an empty buffer inside a write call) issues no write(2)
\* and does not fail: the loop is only ever entered with left > 0.
C17_CallsReturn ==
    /\ (pc # "idle") ~> (pc = "idle")
    /\ [](pc \in WritenSites => left > 0)
    /\ []((op = "write" /\ entry.file.buflen = 0)
             => (pc # "write_flush" /\ call.failedAt # "write_flush"))

\* C17 witness: a write call has returned true after EINTRs and a short
\* write, having gone through plcrash_async_writen with len = 0 for its
\* empty buffer first.
C17_Witness ==
    /\ Returned("write") /\ ret
    /\ entry.file.buflen = 0 /\ EntryDirect
    /\ call.eintr /\ call.short
    /\ disk = entry.disk \o entry.data

\* C18: as long as no write(2) has failed inside a write call, the bytes
\* on the descriptor are a prefix of the bytes accepted, and after a flush
\* or a close that got the buffer through they are exactly the bytes
\* accepted, each once: also when an earlier flush failed after a short
\* write.
C18_FlushRetryExactlyOnce ==
    (pc = "idle" /\ ~wfail)
        => /\ Len(disk) <= Len(accepted)
           /\ disk = SubSeq(accepted, 1, Len(disk))
           /\ (op \in {"flush", "close"} /\ ~call.failed) => disk = accepted

\* C20: with a nonzero limit and write calls of any length up to SIZE_MAX,
\* total_bytes <= limit_bytes in every state and every write call whose
\* length added to total_bytes exceeds the limit (the sum taken in the
\* integers, not in size_t) returns false at once and counts nothing.
C20_LimitHoldsForAllLengths ==
    file.limit_bytes # 0 =>
        /\ file.total_bytes <= file.limit_bytes
        /\ (op = "write"
              /\ entry.file.total_bytes + Len(entry.data) > file.limit_bytes)
               => /\ pc = "idle" /\ ~ret
                  /\ call.lastOs = "none"
                  /\ file.total_bytes = entry.file.total_bytes

\* ------------------------------------------------------------ error strings

\* C11: plcrash_async_strerror gives every enumerator of plcrash_error_t a
\* message that is not empty, that no other enumerator has and that is not
\* the fallback; every value that is no enumerator gets the fallback
\* "Unhandled error code".
C11_Strerror ==
    err.called =>
        /\ err.code \in ErrorCodes =>
               /\ err.msg # ""
               /\ err.msg # "Unhandled error code"
               /\ \A other \in ErrorCodes \ {err.code} :
                      plcrash_async_strerror(other) # err.msg
        /\ err.code \notin ErrorCodes => err.msg = "Unhandled error code"

C11_Witness ==
    /\ err.called
    /\ err.code = PLCRASH_ENOTFOUND
    /\ err.msg = "Not found"

====
